---------------------------- MODULE Spec2Model ----------------------------
(***************************************************************************)
(* Model of the plan-to-graph renderer of mcp-n8n (src/server.ts):         *)
(* NODE_SPECS, nextPos and renderWorkflow.  renderWorkflow is modelled as  *)
(* a state machine with one action per statement group: the trigger       *)
(* push, one iteration of the node loop, one iteration of the connection   *)
(* loop, and the return.  A TypeError raised inside the node loop ends     *)
(* the run in pc = "raised".                                               *)
(***************************************************************************)
EXTENDS Integers, Sequences, FiniteSets, TLC

VARIABLES args, pc, nodes, connections, order, idByStep, prev, i

vars == <<args, pc, nodes, connections, order, idByStep, prev, i>>

-----------------------------------------------------------------------------
(* Bounds of the explored inputs *)

MaxSteps == 2

-----------------------------------------------------------------------------
(* JavaScript values *)

\* An optional field (zod .optional()): absent, or present with a value.
Absent == <<>>

Some(v) == <<v>>

\* The empty object literal {} seen as a map from own keys to values.
EmptyObject == [k \in {} |-> ""]

\* Truthiness of an optional string: undefined and "" are falsy.
Truthy(opt) == opt # Absent /\ opt[1] # ""

Digits == <<"0", "1", "2", "3", "4", "5", "6", "7", "8", "9">>

RECURSIVE String(_)
\* String(n) for a non-negative integer: its decimal digits.
String(n) == IF n < 10 THEN Digits[n + 1]
             ELSE String(n \div 10) \o Digits[(n % 10) + 1]

\* Property names every object literal inherits from Object.prototype.
ObjectPrototypeKeys ==
    {"constructor", "hasOwnProperty", "isPrototypeOf", "propertyIsEnumerable",
     "toLocaleString", "toString", "valueOf", "__defineGetter__",
     "__defineSetter__", "__lookupGetter__", "__lookupSetter__", "__proto__"}

\* The property key an inherited member turns into when it is used as an
\* index (ToPropertyKey): Object.prototype prints as "[object Object]", a
\* built-in function as its native source text.
InheritedAsKey(k) ==
    IF k = "__proto__" THEN "[object Object]"
    ELSE "function " \o (IF k = "constructor" THEN "Object" ELSE k)
                     \o "() { [native code] }"

\* obj[k] = v on an object literal whose values are strings: assigning a
\* string to __proto__ is ignored, any other key becomes an own property.
ObjSet(obj, k, v) ==
    IF k = "__proto__" THEN obj
    ELSE [x \in (DOMAIN obj) \cup {k} |-> IF x = k THEN v ELSE obj[x]]

\* obj[k] on an object literal: the own property, else the inherited member
\* (given as the key it indexes with), else undefined.
ObjGet(obj, k) ==
    IF k \in DOMAIN obj THEN Some(obj[k])
    ELSE IF k \in ObjectPrototypeKeys THEN Some(InheritedAsKey(k))
    ELSE Absent

-----------------------------------------------------------------------------
(* Node catalog *)

NODE_SPECS ==
    [display \in {"Manual Trigger", "Cron", "Webhook", "HTTP Request"} |->
        CASE display = "Manual Trigger" ->
               [display |-> display, type |-> "n8n-nodes-base.manualTrigger",
                defaults |-> EmptyObject]
          [] display = "Cron" ->
               [display |-> display, type |-> "n8n-nodes-base.cron",
                defaults |-> EmptyObject]
          [] display = "Webhook" ->
               [display |-> display, type |-> "n8n-nodes-base.webhook",
                defaults |-> [parameters |->
                                [path |-> "hook", httpMethod |-> "POST"]]]
          [] OTHER ->
               [display |-> display, type |-> "n8n-nodes-base.httpRequest",
                defaults |-> EmptyObject]]

\* NODE_SPECS[t] || { type: t, display: t, defaults: {} } yields an inherited
\* member of Object.prototype when t names one; that member has no
\* `defaults`, so reading spec.defaults.parameters raises a TypeError.
SpecLookupRaises(t) ==
    t \notin DOMAIN NODE_SPECS /\ t \in ObjectPrototypeKeys

\* Variant: display names matched without regard to case.
SpecLookupIgnoreCase(t) ==
    IF t \in DOMAIN NODE_SPECS THEN NODE_SPECS[t]
    ELSE IF t = "webhook" THEN NODE_SPECS["Webhook"]
    ELSE [display |-> t, type |-> t, defaults |-> EmptyObject]

\* NODE_SPECS[t] || { type: t, display: t, defaults: {} }, where it does
\* not raise.
SpecLookup(t) ==
    IF t \in DOMAIN NODE_SPECS THEN NODE_SPECS[t]
    ELSE [display |-> t, type |-> t, defaults |-> EmptyObject]

-----------------------------------------------------------------------------
(* Helpers of renderWorkflow *)

\* Variant: the lane starts one slot to the right.
nextPosOffByOne(idx) == <<280 + (idx + 1) * 220, 300>>

nextPos(idx) == <<280 + idx * 220, 300>>

triggerId == "1"

\* Variant: the cron rule is merged into the default parameters.
TriggerNodeMergesRule(a) ==
    CASE a.trigger = "manual" ->
           [id |-> triggerId, name |-> "Manual Trigger",
            type |-> NODE_SPECS["Manual Trigger"].type, typeVersion |-> 1,
            position |-> nextPos(0)]
      [] a.trigger = "cron" ->
           [id |-> triggerId, name |-> "Cron",
            type |-> NODE_SPECS["Cron"].type, typeVersion |-> 1,
            parameters |->
               IF Truthy(a.cron)
               THEN [rule |-> a.cron[1],
                     triggerFunctions |-> <<[function |-> "everyMinute"]>>]
               ELSE [triggerFunctions |-> <<[function |-> "everyMinute"]>>],
            position |-> nextPos(0)]
      [] OTHER ->
           [id |-> triggerId, name |-> "Webhook",
            type |-> NODE_SPECS["Webhook"].type, typeVersion |-> 1,
            parameters |-> NODE_SPECS["Webhook"].defaults.parameters,
            position |-> nextPos(0)]

\* The node pushed for the trigger.
TriggerNode(a) ==
    CASE a.trigger = "manual" ->
           [id |-> triggerId, name |-> "Manual Trigger",
            type |-> NODE_SPECS["Manual Trigger"].type, typeVersion |-> 1,
            position |-> nextPos(0)]
      [] a.trigger = "cron" ->
           [id |-> triggerId, name |-> "Cron",
            type |-> NODE_SPECS["Cron"].type, typeVersion |-> 1,
            parameters |->
               IF Truthy(a.cron) THEN [rule |-> a.cron[1]]
               ELSE [triggerFunctions |-> <<[function |-> "everyMinute"]>>],
            position |-> nextPos(0)]
      [] OTHER ->
           [id |-> triggerId, name |-> "Webhook",
            type |-> NODE_SPECS["Webhook"].type, typeVersion |-> 1,
            parameters |-> NODE_SPECS["Webhook"].defaults.parameters,
            position |-> nextPos(0)]

\* Variant: the spreads are swapped, the catalog defaults win.
MergeParametersDefaultsWin(defaults, own) ==
    [k \in (DOMAIN defaults) \cup (DOMAIN own) |->
        IF k \in DOMAIN defaults THEN defaults[k] ELSE own[k]]

\* { ...defaults, ...own }: shallow merge, the second spread wins.
MergeParameters(defaults, own) ==
    [k \in (DOMAIN defaults) \cup (DOMAIN own) |->
        IF k \in DOMAIN own THEN own[k] ELSE defaults[k]]

\* spec.defaults.parameters || {}
DefaultParameters(spec) ==
    IF "parameters" \in DOMAIN spec.defaults THEN spec.defaults.parameters
    ELSE EmptyObject

\* s.id || `${s.type}-${order}`
StepKey(s, ord) ==
    IF Truthy(s.id) THEN s.id[1] ELSE s.type \o "-" \o String(ord)

\* The node pushed for step s, order already incremented to ord.
StepNode(s, ord) ==
    [id |-> String(ord), name |-> s.type, type |-> SpecLookup(s.type).type,
     typeVersion |-> 1,
     parameters |-> MergeParameters(DefaultParameters(SpecLookup(s.type)),
                                    s.parameters),
     position |-> nextPos(ord - 1)]

\* Variant: the step map is consulted before the literal "trigger".
ResolveParentMapFirst(k, idMap, prv) ==
    IF ObjGet(idMap, k) # Absent THEN ObjGet(idMap, k)[1]
    ELSE IF k = "trigger" THEN triggerId
    ELSE prv

\* k === 'trigger' ? triggerId : idByStep[k] || prev
ResolveParent(k, idMap, prv) ==
    IF k = "trigger" THEN triggerId
    ELSE IF ObjGet(idMap, k) # Absent THEN ObjGet(idMap, k)[1]
    ELSE prv

\* Variant: a step without dependsOn hangs off the trigger.
ParentsDefaultTrigger(s, idMap, prv) ==
    IF s.dependsOn # Absent /\ Len(s.dependsOn[1]) > 0
    THEN [j \in 1..Len(s.dependsOn[1]) |->
             ResolveParent(s.dependsOn[1][j], idMap, prv)]
    ELSE <<triggerId>>

\* s.dependsOn && s.dependsOn.length ? s.dependsOn.map(...) : [prev]
Parents(s, idMap, prv) ==
    IF s.dependsOn # Absent /\ Len(s.dependsOn[1]) > 0
    THEN [j \in 1..Len(s.dependsOn[1]) |->
             ResolveParent(s.dependsOn[1][j], idMap, prv)]
    ELSE <<prv>>

\* connections[p] = connections[p] || { main: [[]] };
\* connections[p].main[0].push({ node: current, type: 'main', index: 0 })
AddEdge(conn, p, current) ==
    LET old == IF p \in DOMAIN conn THEN conn[p] ELSE [main |-> << <<>> >>]
        new == [main |-> <<Append(old.main[1],
                             [node |-> current, type |-> "main", index |-> 0])>>]
    IN  [x \in (DOMAIN conn) \cup {p} |-> IF x = p THEN new ELSE conn[x]]

RECURSIVE AddEdges(_, _, _)
\* for (const p of parents) { ... }
AddEdges(conn, parents, current) ==
    IF parents = <<>> THEN conn
    ELSE AddEdges(AddEdge(conn, Head(parents), current), Tail(parents), current)

\* Variant: the cursor moves only past steps that were chained by default.
NextPrevUnlessExplicit(s, current, prv) ==
    IF s.dependsOn # Absent /\ Len(s.dependsOn[1]) > 0 THEN prv ELSE current

\* prev = current, whatever the parents were.
NextPrev(s, current, prv) == current

-----------------------------------------------------------------------------
(* Inputs *)

StepOf(id, type, parameters, dependsOn) ==
    [id |-> id, type |-> type, parameters |-> parameters,
     dependsOn |-> dependsOn]

PlanOf(trigger, cron, steps) ==
    [trigger |-> trigger, cron |-> cron, steps |-> steps]

SeqsUpTo(S, n) == UNION {[1..m -> S] : m \in 0..n}

\* Plans that vary the declared ids and the dependency lists.
DeclaredIds == {Absent, Some(""), Some("a"), Some("trigger"), Some("__proto__")}

DependsOnLists ==
    {Absent, Some(<<>>),
     Some(<<"trigger">>), Some(<<"a">>), Some(<<"job-2">>), Some(<<"nope">>),
     Some(<<"constructor">>), Some(<<"__proto__">>),
     Some(<<"a", "trigger">>), Some(<<"nope", "a">>), Some(<<"a", "a">>)}

LinkSteps ==
    {StepOf(id, "job", EmptyObject, d) : id \in DeclaredIds, d \in DependsOnLists}

LinkPlans ==
    {PlanOf("manual", Absent, ss) : ss \in SeqsUpTo(LinkSteps, MaxSteps)}

\* Plans that vary the trigger, the node types and the parameters.
Triggers ==
    {<<"manual", Absent>>, <<"webhook", Absent>>, <<"cron", Absent>>,
     <<"cron", Some("")>>, <<"cron", Some("0 * * * *")>>}

StepTypes == {"HTTP Request", "Webhook", "webhook", "job", "toString"}

StepParameters ==
    {EmptyObject, [path |-> "in"], [url |-> "u"],
     [path |-> "in", url |-> "u"]}

NodeSteps ==
    {StepOf(Absent, t, p, Absent) : t \in StepTypes, p \in StepParameters}

NodePlans ==
    {PlanOf(tr[1], tr[2], ss) : tr \in Triggers,
                                ss \in SeqsUpTo(NodeSteps, MaxSteps)}

-----------------------------------------------------------------------------
(* renderWorkflow *)

Locals ==
    /\ pc = "trigger"
    /\ nodes = <<>>
    /\ connections = EmptyObject
    /\ order = 1
    /\ idByStep = EmptyObject
    /\ prev = triggerId
    /\ i = 0

Init == args \in LinkPlans /\ Locals

InitNodes == args \in NodePlans /\ Locals

\* 1) the trigger node
PushTrigger ==
    /\ pc = "trigger"
    /\ nodes' = Append(nodes, TriggerNode(args))
    /\ pc' = "steps"
    /\ UNCHANGED <<args, connections, order, idByStep, prev, i>>

\* 2) one iteration of `for (const s of args.steps)`
PushStep ==
    /\ pc = "steps"
    /\ order <= Len(args.steps)
    /\ LET s == args.steps[order] IN
         IF SpecLookupRaises(s.type)
         THEN /\ pc' = "raised"
              /\ UNCHANGED <<order, idByStep, nodes>>
         ELSE /\ order' = order + 1
              /\ idByStep' = ObjSet(idByStep, StepKey(s, order + 1),
                                    String(order + 1))
              /\ nodes' = Append(nodes, StepNode(s, order + 1))
              /\ pc' = "steps"
    /\ UNCHANGED <<args, connections, prev, i>>

\* the node loop is exhausted
StepsDone ==
    /\ pc = "steps"
    /\ order > Len(args.steps)
    /\ pc' = "connect"
    /\ UNCHANGED <<args, nodes, connections, order, idByStep, prev, i>>

\* 3) one iteration of `for (let i = 0; i < args.steps.length; i++)`
ConnectStep ==
    /\ pc = "connect"
    /\ i < Len(args.steps)
    /\ LET s == args.steps[i + 1]
           current == String(i + 2)
       IN  /\ connections' = AddEdges(connections,
                                      Parents(s, idByStep, prev), current)
           /\ prev' = NextPrev(s, current, prev)
    /\ i' = i + 1
    /\ UNCHANGED <<args, pc, nodes, order, idByStep>>

\* return { nodes, connections }
Return ==
    /\ pc = "connect"
    /\ i >= Len(args.steps)
    /\ pc' = "done"
    /\ UNCHANGED <<args, nodes, connections, order, idByStep, prev, i>>

Next == PushTrigger \/ PushStep \/ StepsDone \/ ConnectStep \/ Return

Spec == Init /\ [][Next]_vars

SpecNodes == InitNodes /\ [][Next]_vars

-----------------------------------------------------------------------------
(* Reading the returned graph *)

N == Len(args.steps)

Returned == pc = "done"

NodeIds == {nodes[j].id : j \in 1..Len(nodes)}

\* Edges leaving source key p, in order.
OutEdges(p) == IF p \in DOMAIN connections THEN connections[p].main[1] ELSE <<>>

\* Source keys with an edge into node id t.
Sources(t) ==
    {p \in DOMAIN connections :
        \E j \in 1..Len(OutEdges(p)) : OutEdges(p)[j].node = t}

\* Number of edges into node id t over all sources (small graphs only).
RECURSIVE CountInto(_, _)
CountInto(ps, t) ==
    IF ps = {} THEN 0
    ELSE LET p == CHOOSE x \in ps : TRUE
         IN  Cardinality({j \in 1..Len(OutEdges(p)) : OutEdges(p)[j].node = t})
             + CountInto(ps \ {p}, t)

InDegree(t) == CountInto(DOMAIN connections, t)

TypeOK ==
    /\ pc \in {"trigger", "steps", "connect", "done", "raised"}
    /\ order \in 1..(MaxSteps + 2)
    /\ i \in 0..(MaxSteps + 1)

-----------------------------------------------------------------------------
(* Properties of the returned graph *)

Step(j) == args.steps[j]

\* The node rendered for the step at 1-based input index j.
NodeOf(j) == nodes[j + 1]

DecimalText == <<"1", "2", "3", "4", "5", "6", "7", "8", "9">>

\* A step chained by default: dependsOn absent or empty.
NoExplicitParents(j) ==
    Step(j).dependsOn = Absent \/ Step(j).dependsOn = Some(<<>>)

\* The dependsOn tokens of step j.
Tokens(j) ==
    IF Step(j).dependsOn = Absent THEN {}
    ELSE {Step(j).dependsOn[1][m] : m \in 1..Len(Step(j).dependsOn[1])}

HasEdge(p, t) == \E m \in 1..Len(OutEdges(p)) : OutEdges(p)[m].node = t

Edge(t) == [node |-> t, type |-> "main", index |-> 0]

\* C1: a plan in which no step has a dependsOn renders the linear chain
\* 1 -> 2 -> ... -> N+1: each source id 1..N has exactly one outgoing edge,
\* to the next id, node N+1 has no entry, and an empty plan gives one node
\* and an empty connection map.
C1_LinearChain ==
    (Returned /\ \A j \in 1..N : Step(j).dependsOn = Absent) =>
        /\ DOMAIN connections = {DecimalText[k] : k \in 1..N}
        /\ \A k \in 1..N :
              connections[DecimalText[k]] =
                  [main |-> << <<Edge(DecimalText[k + 1])>> >>]
        /\ (N = 0 => Len(nodes) = 1 /\ DOMAIN connections = {})

C1_Witness ==
    /\ Returned
    /\ N = 2
    /\ \A j \in 1..N : Step(j).dependsOn = Absent
    /\ DOMAIN connections = {"1", "2"}
    /\ HasEdge("2", "3")

\* C2: a step whose dependsOn contains "trigger" gets an edge from the
\* trigger node "1", at any position and whatever ids the steps declare.
C2_TriggerToken ==
    Returned =>
        \A j \in 1..N :
            "trigger" \in Tokens(j) => HasEdge("1", DecimalText[j + 1])

C2_Witness ==
    /\ Returned
    /\ N = 2
    /\ Step(1).id = Some("trigger")
    /\ Step(2).dependsOn = Some(<<"a", "trigger">>)
    /\ HasEdge("1", "3")

\* C3: a step chained by default has exactly one incoming edge, from the
\* node of the step before it in input order (the trigger for the first
\* step), whatever parents the earlier steps had.
C3_PreviousCursor ==
    Returned =>
        \A j \in 1..N :
            NoExplicitParents(j) =>
                /\ Sources(DecimalText[j + 1]) = {DecimalText[j]}
                /\ InDegree(DecimalText[j + 1]) = 1

C3_Witness ==
    /\ Returned
    /\ N = 2
    /\ Step(1).dependsOn = Some(<<"a">>)
    /\ Step(2).id = Some("a")
    /\ Step(2).dependsOn = Absent
    /\ Sources("3") = {"2"}
    /\ Sources("2") = {"3"}

\* C4: every non-trigger node has an incoming edge from a node, and every
\* dependsOn token that is neither "trigger" nor a key of the step map adds
\* an edge from the node of the preceding step (the trigger for the first).
C4_DanglingFallsBack ==
    Returned =>
        \A j \in 1..N :
            /\ Sources(DecimalText[j + 1]) \cap NodeIds # {}
            /\ \A t \in Tokens(j) :
                  (t # "trigger" /\ t \notin DOMAIN idByStep) =>
                      HasEdge(DecimalText[j], DecimalText[j + 1])

\* C5 as stated: with trigger = cron and a cron expression present, whatever
\* its value, the trigger parameters are exactly { rule: cron }.
C5_RuleForAnyString ==
    (Returned /\ args.trigger = "cron" /\ args.cron # Absent) =>
        nodes[1].parameters = [rule |-> args.cron[1]]

\* C5 amended: with trigger = cron and a non-empty cron expression, the
\* trigger parameters are exactly { rule: cron }, nothing merged in.
C5_RuleForNonEmpty ==
    (Returned /\ args.trigger = "cron" /\ args.cron # Absent
              /\ args.cron # Some("")) =>
        nodes[1].parameters = [rule |-> args.cron[1]]

C5_Witness ==
    /\ Returned
    /\ args.trigger = "cron"
    /\ args.cron = Some("0 * * * *")
    /\ DOMAIN nodes[1].parameters = {"rule"}
    /\ nodes[1].parameters.rule = "0 * * * *"

\* C6: rendering never raises, and the returned graph has N+1 nodes and
\* only node ids as connection sources and edge targets.
C6_NeverRaisesValidGraph ==
    /\ pc # "raised"
    /\ Returned =>
          /\ Len(nodes) = N + 1
          /\ DOMAIN connections \subseteq NodeIds
          /\ \A p \in DOMAIN connections :
                \A m \in 1..Len(OutEdges(p)) : OutEdges(p)[m].node \in NodeIds

\* C7: a step's engine type is the catalog's type when its type string is
\* exactly a catalog display name, and the raw type string otherwise; equal
\* type strings render equal engine types.
C7_EngineType ==
    Returned =>
        /\ \A j \in 1..N :
              NodeOf(j).type =
                  CASE Step(j).type = "Manual Trigger" -> "n8n-nodes-base.manualTrigger"
                    [] Step(j).type = "Cron" -> "n8n-nodes-base.cron"
                    [] Step(j).type = "Webhook" -> "n8n-nodes-base.webhook"
                    [] Step(j).type = "HTTP Request" -> "n8n-nodes-base.httpRequest"
                    [] OTHER -> Step(j).type
        /\ \A j, k \in 1..N :
              Step(j).type = Step(k).type => NodeOf(j).type = NodeOf(k).type

C7_Witness ==
    /\ Returned
    /\ N = 2
    /\ Step(1).type = "Webhook"
    /\ Step(2).type = "webhook"
    /\ NodeOf(1).type = "n8n-nodes-base.webhook"
    /\ NodeOf(2).type = "webhook"

\* The number of parents the connection pass gives step j.
ParentCount(j) ==
    IF NoExplicitParents(j) THEN 1 ELSE Len(Step(j).dependsOn[1])

\* C8: node ids are unique and sequential in input order with positions on
\* the 220-spaced lane, and the edges added for a step target the id of
\* that step's node, also when steps share a type or a declared id.
C8_SequentialIds ==
    Returned =>
        /\ Len(nodes) = N + 1
        /\ nodes[1].id = "1"
        /\ nodes[1].position = <<280, 300>>
        /\ \A j \in 1..N :
              /\ NodeOf(j).id = DecimalText[j + 1]
              /\ NodeOf(j).position = <<280 + 220 * j, 300>>
              /\ InDegree(NodeOf(j).id) = ParentCount(j)
        /\ \A j, k \in 1..(N + 1) : nodes[j].id = nodes[k].id => j = k

C8_Witness ==
    /\ Returned
    /\ N = 2
    /\ Step(1).id = Some("a")
    /\ Step(2).id = Some("a")
    /\ Step(1).type = Step(2).type
    /\ NodeOf(1).id = "2"
    /\ NodeOf(2).id = "3"
    /\ NodeOf(2).position = <<720, 300>>

\* The catalog's default parameters for a type string.
CatalogDefaults(t) ==
    IF t = "Webhook" THEN [path |-> "hook", httpMethod |-> "POST"]
    ELSE EmptyObject

\* C9: a step's rendered parameters are the shallow merge of the catalog
\* defaults with the step's own parameters, the step winning on collision,
\* with no other keys; without catalog defaults they are the step's own.
C9_ShallowMerge ==
    Returned =>
        \A j \in 1..N :
            LET d == CatalogDefaults(Step(j).type)
                own == Step(j).parameters
                r == NodeOf(j).parameters
            IN  /\ DOMAIN r = (DOMAIN d) \cup (DOMAIN own)
                /\ \A k \in DOMAIN own : r[k] = own[k]
                /\ \A k \in (DOMAIN d) \ (DOMAIN own) : r[k] = d[k]
                /\ (DOMAIN d = {} => r = own)

C9_Witness ==
    /\ Returned
    /\ N >= 1
    /\ Step(1).type = "Webhook"
    /\ Step(1).parameters = [path |-> "in", url |-> "u"]
    /\ NodeOf(1).parameters = [path |-> "in", httpMethod |-> "POST", url |-> "u"]

\* The key of step m: its declared id if non-empty, else type-nodeid.
DeclaredKey(m) ==
    IF Step(m).id # Absent /\ Step(m).id # Some("") THEN Step(m).id[1]
    ELSE Step(m).type \o "-" \o DecimalText[m + 1]

\* C10: a dependsOn token other than "trigger" that is the key of some step
\* resolves to the node of the last step with that key, wherever that step
\* stands relative to the referencing step.
C10_LastKeyWins ==
    Returned =>
        \A j \in 1..N :
            \A t \in Tokens(j) \ {"trigger"} :
                LET holders == {m \in 1..N : DeclaredKey(m) = t}
                IN  holders # {} =>
                        \E m \in holders :
                            /\ \A o \in holders : o <= m
                            /\ HasEdge(DecimalText[m + 1], DecimalText[j + 1])

\* Sanity: outside inherited property names, C4 and C10 hold of the code.
UsesInheritedName ==
    \E j \in 1..N :
        \/ Tokens(j) \cap ObjectPrototypeKeys # {}
        \/ Step(j).id = Some("__proto__")

C4_OwnKeysOnly == UsesInheritedName \/ C4_DanglingFallsBack

C10_OwnKeysOnly == UsesInheritedName \/ C10_LastKeyWins

=============================================================================
